---------------------------- MODULE Spec2Model ----------------------------
(***************************************************************************)
(* Contact-form email relay of alex-m-muli/my-portfolio.                   *)
(*                                                                         *)
(*   browser form (src/components/Contact/Contact.jsx)                     *)
(*     -> POST JSON -> serverless relay (netlify/functions/sendEmail.js)   *)
(*     -> POST JSON -> upstream email API                                  *)
(*                                                                         *)
(* Each action is the code that runs between two await points of a         *)
(* handler.  Strings that the code inspects (form fields) are sequences of *)
(* one-character strings; texts that are only passed along (messages,     *)
(* configuration values) are TLA+ strings.                                 *)
(***************************************************************************)
EXTENDS Integers, Sequences, FiniteSets, TLC

VARIABLES
    \* ---- deployment ----
    env,        \* process.env of the relay: the four EMAILJS_* values
    \* ---- one activation of the relay handler ----
    rpc,        \* "idle" | "fetching" | "waiting" | "done"
    origin,     \* who sent the request being handled: "none" | "direct" | "client"
    event,      \* the handler's argument: [httpMethod, body]
    parsed,     \* JSON.parse(event.body) has been evaluated
    envRead,    \* process.env has been read
    payload,    \* the upstream request payload (NoPayload before it is built)
    attempt,    \* the handler's local `attempt`
    calls,      \* number of fetch(EMAILJS_URL) calls of this activation
    outcomes,   \* how each upstream call ended, in order
    waits,      \* the delays of the setTimeout waits of this activation, in order
    response,   \* what the handler returned (NoResponse before it returns)
    \* ---- the Contact component ----
    form,       \* the DOM form behind formRef: the five field values
    loading,    \* useState(false)
    status,     \* useState({message: "", type: ""})
    errors,     \* useState({}): field name -> message
    cpc,        \* "idle" | "fetching" | "backoff"
    data,       \* handleSubmit's local `data` (NoData outside a submission)
    cattempt,   \* sendEmailWithRetry's local `attempt`
    lastError,  \* sendEmailWithRetry's local `lastError`
    requests,   \* number of fetch("/.netlify/functions/sendEmail") calls of the submission
    cwaits,     \* the backoff delays of the submission, in order
    coutcomes,  \* how each request of the submission ended, in order: the HTTP
                \* response received, or NetworkFailure
    active,     \* executions of handleSubmit between setLoading(true) and setLoading(false)
    upstreamCalls, \* upstream calls caused by the submission, over all its requests
    net,        \* the client's request: "none" | "request" (on its way) | "relay" (being handled)
    \* ---- history ----
    last,       \* name of the handler step taken last
    inv,        \* two invocations of the handler side by side: for each, where
                \* it is, its upstream calls, their outcomes, its waits, its response
    counters,   \* the attempt counters of those invocations
    tmounted,   \* the Testimonials component is mounted
    reduced,    \* matchMedia("(prefers-reduced-motion: reduce)").matches
    paused,     \* useState(false)
    indexes,    \* useState: card -> index of the testimonial it shows
    intervalsRef,   \* card -> its rotation interval is set (its id is in intervalsRef.current)
    startTimeouts,  \* card -> number of pending setTimeout(startIntervalForCard) callbacks
    resumeTimeout,  \* the setTimeout of resumeAll is pending (resumeTimeoutRef.current)
    cleanup     \* the last run of the effect returned its cleanup function

relayVars  == <<rpc, origin, event, parsed, envRead, payload, attempt, calls,
                outcomes, waits, response>>
clientVars == <<form, loading, status, errors, cpc, data, cattempt, lastError,
                requests, cwaits, coutcomes, active>>
linkVars   == <<upstreamCalls, net>>
pairVars   == <<inv, counters>>
carouselVars == <<tmounted, reduced, paused, indexes, intervalsRef, startTimeouts,
                  resumeTimeout, cleanup>>
sideVars   == <<pairVars, carouselVars>>
vars == <<env, relayVars, clientVars, linkVars, last, sideVars>>

----------------------------------------------------------------------------
(* JavaScript values.  Every value is a record whose first field t is its  *)
(* type tag.                                                               *)

Undefined == [t |-> "undefined"]
JNull     == [t |-> "null"]
JStr(s)   == [t |-> "string", v |-> s]
JNum(n)   == [t |-> "number", v |-> n]
JObj(f)   == [t |-> "object", v |-> f]

\* ToBoolean
Truthy(x) ==
    CASE x.t = "undefined" -> FALSE
      [] x.t = "null"      -> FALSE
      [] x.t = "string"    -> x.v # <<>>
      [] x.t = "number"    -> x.v # 0
      [] OTHER             -> TRUE

\* x[key] for a destructuring pattern { key } = x.  Reading a property of
\* null or undefined throws a TypeError.
CanDestructure(x) == x.t \notin {"undefined", "null"}

GetProp(x, key) ==
    IF x.t = "object" /\ key \in DOMAIN x.v THEN x.v[key] ELSE Undefined

\* The text of an HTTP body.  A well-formed JSON text is represented by the
\* value it denotes, any other text by its characters.
JsonText(x) == [wf |-> TRUE, value |-> x]
RawText(s)  == [wf |-> FALSE, raw |-> s]

JSONstringify(x) == JsonText(x)

\* JSON.parse: the value, or a SyntaxError
JSONparse(text) ==
    IF text.wf THEN [threw |-> FALSE, value |-> text.value]
               ELSE [threw |-> TRUE]

RECURSIVE Pow2(_)
Pow2(n) == IF n <= 0 THEN 1 ELSE 2 * Pow2(n - 1)

----------------------------------------------------------------------------
(* netlify/functions/sendEmail.js                                          *)

MAX_RETRIES == 3
RETRY_DELAY == 1000

Unset == ""

Resp(code, body) == [statusCode |-> code, body |-> body]
NoResponse == Resp(0, [none |-> TRUE])
NoPayload  == [none |-> TRUE]
NoEvent    == [httpMethod |-> "", body |-> RawText("")]

MethodNotAllowed == Resp(405, [error |-> "Method Not Allowed. Use POST."])
InvalidFormat    == Resp(400, [error |-> "Invalid request format."])
MissingFields    == Resp(400, [error |-> "Missing required fields."])
ConfigError      == Resp(500, [error |-> "Server configuration error."])
Sent             == Resp(200, [success |-> TRUE, message |-> "Message sent successfully."])
Unavailable      == Resp(502, [error |-> "Email service temporarily unavailable. Please try again later."])
InternalError    == Resp(500, [error |-> "Internal server error. Please try again later."])

RequiredFields == {"from_name", "reply_to", "subject", "message"}

\* variant: GET is let through as well
MethodRejected_getAllowed(ev) == ev.httpMethod \notin {"POST", "GET"}

\* line 10
MethodRejected(ev) == ev.httpMethod # "POST"

\* line 29: !from_name || !reply_to || !subject || !message
FieldsMissing(bodyData) ==
    \/ ~Truthy(GetProp(bodyData, "from_name"))
    \/ ~Truthy(GetProp(bodyData, "reply_to"))
    \/ ~Truthy(GetProp(bodyData, "subject"))
    \/ ~Truthy(GetProp(bodyData, "message"))

\* variant: the public key is preferred
API_KEY_publicFirst(e) ==
    IF e.EMAILJS_PUBLIC_KEY # Unset THEN e.EMAILJS_PUBLIC_KEY
                                    ELSE e.EMAILJS_PRIVATE_KEY

\* line 41: PRIVATE_KEY || PUBLIC_KEY
API_KEY(e) ==
    IF e.EMAILJS_PRIVATE_KEY # Unset THEN e.EMAILJS_PRIVATE_KEY
                                     ELSE e.EMAILJS_PUBLIC_KEY

\* variant: the credential is not checked
ConfigMissing_noKey(e) ==
    \/ e.EMAILJS_SERVICE_ID = Unset
    \/ e.EMAILJS_TEMPLATE_ID = Unset

\* line 43: !SERVICE_ID || !TEMPLATE_ID || !API_KEY
ConfigMissing(e) ==
    \/ e.EMAILJS_SERVICE_ID = Unset
    \/ e.EMAILJS_TEMPLATE_ID = Unset
    \/ API_KEY(e) = Unset

\* lines 52-57
BuildPayload(e, bodyData) ==
    [service_id  |-> e.EMAILJS_SERVICE_ID,
     template_id |-> e.EMAILJS_TEMPLATE_ID,
     user_id     |-> API_KEY(e),
     template_params |->
        [from_name |-> GetProp(bodyData, "from_name"),
         reply_to  |-> GetProp(bodyData, "reply_to"),
         subject   |-> GetProp(bodyData, "subject"),
         message   |-> GetProp(bodyData, "message")]]

Return(r, p, c) ==
    [ret |-> TRUE, response |-> r, parsed |-> p, envRead |-> c, payload |-> NoPayload]
Proceed(pl) ==
    [ret |-> FALSE, response |-> NoResponse, parsed |-> TRUE, envRead |-> TRUE, payload |-> pl]

\* variant: no try/catch around JSON.parse, so that a SyntaxError reaches the
\* catch of line 121
HandlerEntry_noParseCatch(ev, e) ==
    IF MethodRejected(ev) THEN Return(MethodNotAllowed, FALSE, FALSE)
    ELSE LET p == JSONparse(ev.body) IN
         IF p.threw THEN Return(InternalError, TRUE, FALSE)
         ELSE IF ~CanDestructure(p.value) THEN Return(InternalError, TRUE, FALSE)
         ELSE IF FieldsMissing(p.value) THEN Return(MissingFields, TRUE, FALSE)
         ELSE IF ConfigMissing(e) THEN Return(ConfigError, TRUE, TRUE)
         ELSE Proceed(BuildPayload(e, p.value))

\* variant: no catch around the handler's body; the TypeError leaves the handler
HandlerEntry_noOuterCatch(ev, e) ==
    IF MethodRejected(ev) THEN Return(MethodNotAllowed, FALSE, FALSE)
    ELSE LET p == JSONparse(ev.body) IN
         IF p.threw THEN Return(InvalidFormat, TRUE, FALSE)
         ELSE IF ~CanDestructure(p.value)
              THEN Return(Resp(0, [thrown |-> "TypeError"]), TRUE, FALSE)
         ELSE IF FieldsMissing(p.value) THEN Return(MissingFields, TRUE, FALSE)
         ELSE IF ConfigMissing(e) THEN Return(ConfigError, TRUE, TRUE)
         ELSE Proceed(BuildPayload(e, p.value))

\* lines 10-69: the handler up to its retry loop.  The destructuring of line 27
\* throws a TypeError on null, which the catch of line 121 turns into a 500.
HandlerEntry(ev, e) ==
    IF MethodRejected(ev) THEN Return(MethodNotAllowed, FALSE, FALSE)
    ELSE LET p == JSONparse(ev.body) IN
         IF p.threw THEN Return(InvalidFormat, TRUE, FALSE)
         ELSE IF ~CanDestructure(p.value) THEN Return(InternalError, TRUE, FALSE)
         ELSE IF FieldsMissing(p.value) THEN Return(MissingFields, TRUE, FALSE)
         ELSE IF ConfigMissing(e) THEN Return(ConfigError, TRUE, TRUE)
         ELSE Proceed(BuildPayload(e, p.value))

\* How an upstream call ends: a response with a status, or fetch()/text() throwing.
\* line 80: the body text of an upstream response; line 106: the message of the
\* error a rejected fetch throws
AnswerText(st, txt) == [kind |-> "response", status |-> st, text |-> txt]
ExceptionOf(msg)    == [kind |-> "exception", status |-> 0, text |-> msg]

\* what the provider usually sends with each status
UsualText(st) ==
    CASE st = 200 -> "OK"
      [] st = 204 -> ""
      [] st = 400 -> "The template ID not found"
      [] st = 403 -> "API calls are disabled for non-browser applications"
      [] st = 500 -> "Internal Server Error"
      [] OTHER    -> "Service Unavailable"

Answer(st)  == AnswerText(st, UsualText(st))
Exception   == ExceptionOf("ECONNRESET")
\* variant: only 200 counts as ok
ResponseOk_only200(o) == o.kind = "response" /\ o.status = 200

ResponseOk(o) == o.kind = "response" /\ o.status >= 200 /\ o.status <= 299

\* variant: the delay does not grow with the attempt
Backoff_flat(att) == RETRY_DELAY

\* lines 90 and 108
Backoff(att) == RETRY_DELAY * Pow2(att - 1)

\* variant: a 5xx answer is retried whatever the attempt
RetryOn5xx_unbounded(st, att) == st >= 500

\* line 89
RetryOn5xx(st, att) == st >= 500 /\ att < MAX_RETRIES

\* line 107
CatchRetries(att) == att < MAX_RETRIES

Wait(d) == [next |-> "wait", delay |-> d, response |-> NoResponse]
Done(r) == [next |-> "return", delay |-> 0, response |-> r]
Loop    == [next |-> "loop", delay |-> 0, response |-> NoResponse]

\* variant: the catch block rethrows on the last attempt
Catch_rethrows(att) ==
    IF CatchRetries(att) THEN Wait(Backoff(att)) ELSE Done(InternalError)

\* lines 105-114: the catch block of the loop body
Catch(att) == IF CatchRetries(att) THEN Wait(Backoff(att)) ELSE Loop

\* variant: the success result carries the upstream body
AfterAttempt_echoesText(o, att) ==
    IF o.kind = "exception" THEN Catch(att)
    ELSE IF ~ResponseOk(o)
         THEN IF RetryOn5xx(o.status, att) THEN Wait(Backoff(att))
              ELSE Catch(att)
         ELSE Done(Resp(200, [success |-> TRUE, message |-> o.text]))

\* lines 80-114: the loop body from the point where the upstream call ended
AfterAttempt(o, att) ==
    IF o.kind = "exception" THEN Catch(att)
    ELSE IF ~ResponseOk(o)
         THEN IF RetryOn5xx(o.status, att) THEN Wait(Backoff(att))  \* continue
              ELSE Catch(att)                                       \* throw, line 97
         ELSE Done(Sent)

\* line 71
LoopContinues(att) == att < MAX_RETRIES

----------------------------------------------------------------------------
(* Inputs                                                                  *)

Methods == {"GET", "POST"}

EnvValues == [EMAILJS_SERVICE_ID  : {Unset, "service"},
              EMAILJS_TEMPLATE_ID : {Unset, "template"},
              EMAILJS_PUBLIC_KEY  : {Unset, "public"},
              EMAILJS_PRIVATE_KEY : {Unset, "private"}]

UpstreamStatuses == {200, 204, 400, 403, 500, 503}
UpstreamOutcomes ==
    {Answer(st) : st \in UpstreamStatuses}
        \cup {AnswerText(200, "queued"), AnswerText(500, "stack trace")}
        \cup {Exception, ExceptionOf("ETIMEDOUT")}

Name_A     == <<"a">>
Blank      == <<" ">>
Email_AtBC == <<"a", "@", "b", ".", "c">>

AllKeys == RequiredFields \cup {"bot_field"}

\* values a directly posted JSON object may carry under each key
DirectValues(k) ==
    CASE k = "from_name" -> {JStr(<<>>), JStr(Blank), JStr(Name_A)}
      [] k = "reply_to"  -> {JStr(<<>>), JStr(Name_A), JStr(Email_AtBC)}
      [] k = "subject"   -> {JNull, JStr(Name_A)}
      [] k = "message"   -> {JNum(0), JStr(Name_A)}
      [] OTHER           -> {JStr(Name_A)}

DirectObjects ==
    UNION { { f \in [K -> UNION {DirectValues(k) : k \in K}] :
                \A k \in K : f[k] \in DirectValues(k) } : K \in SUBSET AllKeys }

DirectBodies ==
    {RawText(""), RawText("{bad"), JsonText(JNull), JsonText(JNum(5)),
     JsonText(JStr(Name_A))} \cup {JsonText(JObj(f)) : f \in DirectObjects}

DirectEvents == [httpMethod : Methods, body : DirectBodies]

----------------------------------------------------------------------------
(* src/components/Contact/Contact.jsx, lines 11-127                        *)

maxRetries == 3
delay      == 1000

IsSpace(c) == c = " "

\* String.prototype.trim
RECURSIVE TrimStart(_)
TrimStart(s) == IF s # <<>> /\ IsSpace(Head(s)) THEN TrimStart(Tail(s)) ELSE s
RECURSIVE TrimEnd(_)
TrimEnd(s) ==
    IF s # <<>> /\ IsSpace(s[Len(s)]) THEN TrimEnd(SubSeq(s, 1, Len(s) - 1)) ELSE s
Trim(s) == TrimEnd(TrimStart(s))

\* [^\s@]
Plain(c) == ~IsSpace(c) /\ c # "@"

\* variant: the pattern asks for no dot after the "@"
EmailPattern_noTld(s) ==
    \E i \in 2 .. Len(s) - 1 :
        /\ s[i] = "@"
        /\ \A k \in 1 .. Len(s) : k # i => Plain(s[k])

\* line 22: /^[^\s@]+@[^\s@]+\.[^\s@]+$/.test(s)
EmailPattern(s) ==
    \E i \in 2 .. Len(s) :
        /\ s[i] = "@"
        /\ \A k \in 1 .. Len(s) : k # i => Plain(s[k])
        /\ \E j \in i + 2 .. Len(s) - 1 : s[j] = "."

\* variant: the format of the email is not checked
validateForm_noPattern(d) ==
    LET keys == {k \in RequiredFields : Trim(d[k]) = <<>>}
    IN  [k \in keys |->
            CASE k = "from_name" -> "Name is required."
              [] k = "reply_to"  -> "Email is required."
              [] k = "subject"   -> "Subject is required."
              [] OTHER           -> "Message cannot be empty."]

validateForm_noTrim(d) ==
    LET emailEmpty == d.reply_to = <<>>
        emailBad   == ~emailEmpty /\ ~EmailPattern(d.reply_to)
        keys == {k \in RequiredFields :
                    \/ k # "reply_to" /\ d[k] = <<>>
                    \/ k = "reply_to" /\ (emailEmpty \/ emailBad)}
    IN  [k \in keys |->
            CASE k = "from_name" -> "Name is required."
              [] k = "reply_to"  -> IF emailEmpty THEN "Email is required."
                                                  ELSE "Invalid email format."
              [] k = "subject"   -> "Subject is required."
              [] OTHER           -> "Message cannot be empty."]

\* lines 18-27
validateForm(d) ==
    LET nameErr    == Trim(d.from_name) = <<>>
        emailEmpty == Trim(d.reply_to) = <<>>
        emailBad   == ~emailEmpty /\ ~EmailPattern(d.reply_to)
        subjectErr == Trim(d.subject) = <<>>
        messageErr == Trim(d.message) = <<>>
        keys == {k \in RequiredFields :
                    \/ k = "from_name" /\ nameErr
                    \/ k = "reply_to"  /\ (emailEmpty \/ emailBad)
                    \/ k = "subject"   /\ subjectErr
                    \/ k = "message"   /\ messageErr}
    IN  [k \in keys |->
            CASE k = "from_name" -> "Name is required."
              [] k = "reply_to"  -> IF emailEmpty THEN "Email is required."
                                                  ELSE "Invalid email format."
              [] k = "subject"   -> "Subject is required."
              [] OTHER           -> "Message cannot be empty."]

NoErrors  == [k \in {} |-> ""]
NoStatus  == [message |-> "", type |-> ""]
EmptyForm == [k \in AllKeys |-> <<>>]
NoData    == [k \in {} |-> <<>>]

HoneypotStatus == [message |-> "Message sent successfully!", type |-> "success"]
InvalidStatus  == [message |-> "Please correct the highlighted fields.", type |-> "error"]
SuccessStatus  == [message |-> "Message sent successfully! I'll get back to you soon - thank you.",
                   type |-> "success"]
FailureStatus  == [message |-> "Failed to send message after multiple attempts. Please try again later or email directly using the address below.",
                   type |-> "error"]

\* variant: the honeypot is not looked at
BotFilled_never(f) == FALSE

\* line 86: if (botField)
BotFilled(f) == f.bot_field # <<>>

\* line 52: the request body; line 92: data holds every entry of the form
RequestBody(d) == JSONstringify(JObj([k \in DOMAIN d |-> JStr(d[k])]))

\* fetch() rejected: there is no response
NetworkFailure == Resp(0, [raw |-> "Failed to fetch"])

\* Responses that the hosting platform gives in place of the function: a page
\* that is not JSON, or JSON of another shape.
GatewayResponses ==
    {Resp(404, [raw |-> "<html>Not Found</html>"]),
     Resp(429, [error |-> "Too Many Requests"]),
     Resp(200, [raw |-> "<html></html>"]),
     Resp(200, [success |-> FALSE]),
     Resp(200, [message |-> "ok"]),
     Resp(504, [raw |-> "<html>Gateway Timeout</html>"])}

\* line 55: response.json().catch(() => ({ success: false }))
ResultOf(r) == IF "raw" \in DOMAIN r.body THEN [success |-> FALSE] ELSE r.body

\* lines 49-55: the response and its parsed body, as the code below reads them
Received(r) == Resp(r.statusCode, ResultOf(r))

\* variant: an ok status is enough
Confirmed_okOnly(r) == r.statusCode >= 200 /\ r.statusCode <= 299

\* variant: the flag is read under another name
Confirmed_wrongFlag(r) ==
    /\ r.statusCode >= 200 /\ r.statusCode <= 299
    /\ "ok" \in DOMAIN r.body /\ r.body.ok

\* line 57: response.ok && result?.success
Confirmed(r) ==
    /\ r.statusCode >= 200 /\ r.statusCode <= 299
    /\ "success" \in DOMAIN r.body /\ r.body.success

\* line 61: result?.error || "Server error, retrying..."
ErrorOf(r) ==
    IF "error" \in DOMAIN r.body /\ r.body.error # "" THEN r.body.error
    ELSE "Server error, retrying..."

\* variant: every error status is retried
ServerError_from400(r) == r.statusCode >= 400

\* line 59
ServerError(r) == r.statusCode >= 500

\* variant: the same delay before every retry
ClientBackoff_flat(att) == delay

\* line 71
ClientBackoff(att) == delay * Pow2(att - 1)

\* line 47
ClientContinues(att) == att < maxRetries

\* line 70
ClientWaits(att) == att < maxRetries

\* variant: the submit control is never disabled
SubmitEnabled_always(l) == TRUE

\* line 226: disabled={loading} on the only submit control of the form
SubmitEnabled(l) == ~l

\* lines 129-236: what the component renders that the claims speak of: the
\* busy state of the form, the submit control, the status paragraph (absent
\* when the message is empty) and the links (the markup has no anchor element)
Render(ld, st) ==
    [busy |-> ld,
     submitDisabled |-> ld,
     statusShown |-> st.message # "",
     statusText |-> st.message,
     links |-> {}]

\* what the user can type into each field
FieldValues(k) ==
    CASE k = "reply_to"  -> {<<>>, Name_A, Email_AtBC}
      [] k = "bot_field" -> {<<>>, Name_A}
      [] OTHER           -> {<<>>, Blank, Name_A}

----------------------------------------------------------------------------
(* State machine                                                           *)

\* The handler's retry loop, lines 67-115, run by two invocations at once.
Invocations == {1, 2}

IdleInvocation ==
    [pc |-> "idle", calls |-> 0, outcomes |-> <<>>, waits |-> <<>>,
     response |-> NoResponse]

PairInit ==
    /\ inv = [i \in Invocations |-> IdleInvocation]
    /\ counters = [i \in Invocations |-> 0]

\* src/components/Testimonials/Testimonials.jsx: three cards of two testimonials
Cards == {0, 1, 2}
CardLength == 2

\* the most start timeouts of one card pending at once
MaxPending == 2

\* the component has rendered once and its effect has not run yet
CarouselInit ==
    /\ tmounted = TRUE /\ reduced = FALSE /\ paused = FALSE
    /\ indexes = [c \in Cards |-> 0]
    /\ intervalsRef = [c \in Cards |-> FALSE]
    /\ startTimeouts = [c \in Cards |-> 0]
    /\ resumeTimeout = FALSE /\ cleanup = FALSE

SideInit == PairInit /\ CarouselInit

\* the relay and the contact form before any request or input
MainInit ==
    /\ env \in EnvValues
    /\ rpc = "idle" /\ origin = "none" /\ event = NoEvent
    /\ parsed = FALSE /\ envRead = FALSE /\ payload = NoPayload
    /\ attempt = 0 /\ calls = 0 /\ outcomes = <<>> /\ waits = <<>>
    /\ response = NoResponse
    /\ form = EmptyForm /\ loading = FALSE /\ status = NoStatus /\ errors = NoErrors
    /\ cpc = "idle" /\ data = NoData /\ cattempt = 0 /\ lastError = ""
    /\ requests = 0 /\ cwaits = <<>> /\ coutcomes = <<>> /\ active = 0
    /\ upstreamCalls = 0 /\ net = "none"
    /\ last = "init"

Init == MainInit /\ SideInit

\* The activation of the handler is over; the next one starts from scratch.
RelayReset ==
    /\ rpc' = "idle" /\ origin' = "none" /\ event' = NoEvent
    /\ parsed' = FALSE /\ envRead' = FALSE /\ payload' = NoPayload
    /\ attempt' = 0 /\ calls' = 0 /\ outcomes' = <<>> /\ waits' = <<>>
    /\ response' = NoResponse

\* line 71: the loop condition, then lines 72-78 (attempt++ and the fetch), or
\* the return of line 117
LoopTop(att) ==
    IF LoopContinues(att)
    THEN /\ rpc' = "fetching" /\ attempt' = att + 1 /\ calls' = calls + 1
         /\ response' = NoResponse
         /\ upstreamCalls' = IF origin' = "client" THEN upstreamCalls + 1
                                                   ELSE upstreamCalls
    ELSE /\ rpc' = "done" /\ attempt' = att /\ calls' = calls
         /\ response' = Unavailable
         /\ UNCHANGED upstreamCalls

\* handler(event), lines 9-78: from the call to the first upstream fetch or to
\* an early return
Handle(ev, org) ==
    LET h == HandlerEntry(ev, env) IN
    /\ rpc = "idle"
    /\ event' = ev /\ origin' = org
    /\ parsed' = h.parsed /\ envRead' = h.envRead /\ payload' = h.payload
    /\ outcomes' = <<>> /\ waits' = <<>>
    /\ IF h.ret
       THEN /\ rpc' = "done" /\ response' = h.response
            /\ attempt' = 0 /\ calls' = 0
            /\ UNCHANGED upstreamCalls
       ELSE LoopTop(0)

\* The browser session is at rest in its initial state.
ClientPristine ==
    /\ cpc = "idle" /\ ~loading /\ net = "none"
    /\ form = EmptyForm /\ status = NoStatus /\ errors = NoErrors
    /\ requests = 0 /\ cwaits = <<>> /\ coutcomes = <<>> /\ upstreamCalls = 0

\* A request posted straight to the endpoint.  The direct caller and the browser
\* share nothing but the relay, which keeps no state between activations, so a
\* direct request is explored from the resting browser session only.
DirectRequest ==
    /\ ClientPristine
    /\ \E ev \in DirectEvents : Handle(ev, "direct")
    /\ last' = "DirectRequest"
    /\ UNCHANGED <<env, clientVars, net>>
    /\ UNCHANGED sideVars

\* The client's request reaches the relay.
RequestArrives ==
    /\ net = "request"
    /\ Handle([httpMethod |-> "POST", body |-> RequestBody(data)], "client")
    /\ net' = "relay"
    /\ last' = "RequestArrives"
    /\ UNCHANGED <<env, clientVars>>
    /\ UNCHANGED sideVars

\* lines 74-114: an upstream call ends and the loop body runs to its next await
\* or to a return
UpstreamAnswers ==
    /\ rpc = "fetching"
    /\ \E o \in UpstreamOutcomes :
         LET a == AfterAttempt(o, attempt) IN
         /\ outcomes' = Append(outcomes, o)
         /\ UNCHANGED origin
         /\ CASE a.next = "return" ->
                   /\ rpc' = "done" /\ response' = a.response
                   /\ UNCHANGED <<attempt, calls, waits, upstreamCalls>>
              [] a.next = "wait" ->
                   /\ rpc' = "waiting" /\ waits' = Append(waits, a.delay)
                   /\ UNCHANGED <<attempt, calls, response, upstreamCalls>>
              [] OTHER ->
                   /\ LoopTop(attempt)
                   /\ UNCHANGED waits
    /\ last' = "UpstreamAnswers"
    /\ UNCHANGED <<env, event, parsed, envRead, payload, clientVars, net>>
    /\ UNCHANGED sideVars

\* lines 92 and 110: the setTimeout of a backoff wait fires
RelayTimer ==
    /\ rpc = "waiting"
    /\ UNCHANGED origin
    /\ LoopTop(attempt)
    /\ last' = "RelayTimer"
    /\ UNCHANGED <<env, event, parsed, envRead, payload, outcomes, waits,
                   clientVars, net>>
    /\ UNCHANGED sideVars

\* The direct caller has its response.
DirectResponse ==
    /\ rpc = "done" /\ origin = "direct"
    /\ RelayReset
    /\ last' = "DirectResponse"
    /\ UNCHANGED <<env, clientVars, linkVars>>
    /\ UNCHANGED sideVars

\* The user does nothing while a direct request is being handled (see
\* DirectRequest).
NoDirectRequest == origin # "direct"

\* The counts of a submission (history, not program state) are kept until the
\* user next touches the form.
NewInteraction ==
    requests' = 0 /\ cwaits' = <<>> /\ coutcomes' = <<>> /\ upstreamCalls' = 0

\* lines 30-40, run by the input event of one of the four visible fields.
\* Input events are explored between submissions: a submission works on `data`,
\* the copy of the form taken at line 92, so typing during one changes `form`
\* alone.
handleInputChange ==
    /\ NoDirectRequest
    /\ cpc = "idle"
    /\ \E name \in RequiredFields : \E v \in FieldValues(name) :
         /\ v # form[name]
         /\ form' = [form EXCEPT ![name] = v]
         /\ errors' = IF name \in DOMAIN errors
                      THEN [k \in DOMAIN errors \ {name} |-> errors[k]]
                      ELSE errors
    /\ status' = IF status.message # "" THEN NoStatus ELSE status
    /\ NewInteraction
    /\ last' = "handleInputChange"
    /\ UNCHANGED <<env, relayVars, net, loading, cpc, data, cattempt, lastError,
                   active>>
    /\ UNCHANGED sideVars

\* lines 221-224: the hidden field has no input handler
BotInput ==
    /\ NoDirectRequest
    /\ cpc = "idle"
    /\ \E v \in FieldValues("bot_field") :
         /\ v # form.bot_field
         /\ form' = [form EXCEPT !.bot_field = v]
    /\ NewInteraction
    /\ last' = "BotInput"
    /\ UNCHANGED <<env, relayVars, net, loading, status, errors, cpc, data,
                   cattempt, lastError, active>>
    /\ UNCHANGED sideVars

\* lines 49-53: fetch("/.netlify/functions/sendEmail")
ClientFetch ==
    /\ cpc' = "fetching" /\ net' = "request" /\ requests' = requests + 1

\* variant: no finally block; loading stays as it is
Finish_keepsLoading(success) ==
    /\ status' = IF success THEN SuccessStatus ELSE FailureStatus
    /\ form' = IF success THEN EmptyForm ELSE form
    /\ UNCHANGED <<loading, active>>
    /\ cpc' = "idle" /\ data' = NoData /\ cattempt' = 0 /\ lastError' = ""
    /\ net' = "none"
    /\ UNCHANGED <<errors, requests, cwaits>>

\* variant: the form is reset whatever the result
Finish_alwaysResets(success) ==
    /\ status' = IF success THEN SuccessStatus ELSE FailureStatus
    /\ form' = EmptyForm
    /\ loading' = FALSE /\ active' = active - 1
    /\ cpc' = "idle" /\ data' = NoData /\ cattempt' = 0 /\ lastError' = ""
    /\ net' = "none"
    /\ UNCHANGED <<errors, requests, cwaits>>

\* lines 108-126: handleSubmit after sendEmailWithRetry has returned
Finish(success) ==
    /\ status' = IF success THEN SuccessStatus ELSE FailureStatus
    /\ form' = IF success THEN EmptyForm ELSE form
    /\ loading' = FALSE /\ active' = active - 1
    /\ cpc' = "idle" /\ data' = NoData /\ cattempt' = 0 /\ lastError' = ""
    /\ net' = "none"
    /\ UNCHANGED <<errors, requests, cwaits>>

\* lines 81-106: the submit event, up to the first await.  The submit control
\* is disabled while loading (line 226).
handleSubmit ==
    /\ NoDirectRequest
    /\ SubmitEnabled(loading)
    /\ requests' = IF ~BotFilled(form) /\ validateForm(form) = NoErrors THEN 1 ELSE 0
    /\ cwaits' = <<>> /\ coutcomes' = <<>> /\ upstreamCalls' = 0
    /\ IF BotFilled(form)
       THEN /\ status' = HoneypotStatus
            /\ form' = EmptyForm
            /\ UNCHANGED <<errors, loading, cpc, data, cattempt, lastError, net,
                           active>>
       ELSE IF validateForm(form) # NoErrors
       THEN /\ errors' = validateForm(form)
            /\ status' = InvalidStatus
            /\ UNCHANGED <<form, loading, cpc, data, cattempt, lastError, net,
                           active>>
       ELSE /\ errors' = NoErrors
            /\ status' = NoStatus
            /\ loading' = TRUE /\ active' = active + 1
            /\ data' = form
            /\ cattempt' = 0 /\ lastError' = ""
            /\ cpc' = "fetching" /\ net' = "request"
            /\ UNCHANGED form
    /\ last' = "handleSubmit"
    /\ UNCHANGED <<env, relayVars>>
    /\ UNCHANGED sideVars

\* variant: the catch block of the retry loop ends the loading state
ClientCatch_clearsLoading(err) ==
    LET att == cattempt + 1 IN
    IF ClientWaits(att)
    THEN /\ cpc' = "backoff" /\ cwaits' = Append(cwaits, ClientBackoff(att))
         /\ cattempt' = att /\ lastError' = err
         /\ net' = "none" /\ loading' = FALSE
         /\ UNCHANGED <<form, status, errors, data, requests, active>>
    ELSE IF ClientContinues(att)
    THEN /\ ClientFetch
         /\ cattempt' = att /\ lastError' = err
         /\ UNCHANGED <<form, loading, status, errors, data, cwaits, active>>
    ELSE Finish(FALSE)

\* lines 66-75: the catch block, then the loop condition
ClientCatch(err) ==
    LET att == cattempt + 1 IN
    IF ClientWaits(att)
    THEN /\ cpc' = "backoff" /\ cwaits' = Append(cwaits, ClientBackoff(att))
         /\ cattempt' = att /\ lastError' = err
         /\ net' = "none"
         /\ UNCHANGED <<form, loading, status, errors, data, requests, active>>
    ELSE IF ClientContinues(att)
    THEN /\ ClientFetch
         /\ cattempt' = att /\ lastError' = err
         /\ UNCHANGED <<form, loading, status, errors, data, cwaits, active>>
    ELSE Finish(FALSE)

\* lines 55-65: a response r has arrived
AfterResponse(r) ==
    /\ coutcomes' = Append(coutcomes, r)
    /\ IF Confirmed(Received(r)) THEN Finish(TRUE)
       ELSE IF ServerError(Received(r)) THEN ClientCatch(ErrorOf(Received(r)))
       ELSE Finish(FALSE)

\* the relay's response arrives
FetchResolves ==
    /\ cpc = "fetching" /\ net = "relay" /\ rpc = "done" /\ origin = "client"
    /\ AfterResponse(response)
    /\ RelayReset
    /\ last' = "FetchResolves"
    /\ UNCHANGED <<env, upstreamCalls>>
    /\ UNCHANGED sideVars

\* the platform answers the request itself; the handler is not run
GatewayResponds ==
    /\ cpc = "fetching" /\ net = "request"
    /\ \E g \in GatewayResponses : AfterResponse(g)
    /\ last' = "GatewayResponds"
    /\ UNCHANGED <<env, relayVars, upstreamCalls>>
    /\ UNCHANGED sideVars

\* line 49: fetch() rejects: the request was lost on its way, or the response
\* was.  (A connection that breaks while the handler is still running would leave
\* that activation running beside the next one; one activation is modelled.)
FetchRejects ==
    /\ cpc = "fetching"
    /\ \/ net = "request" /\ UNCHANGED relayVars
       \/ net = "relay" /\ rpc = "done" /\ RelayReset
    /\ coutcomes' = Append(coutcomes, NetworkFailure)
    /\ ClientCatch("Failed to fetch")
    /\ last' = "FetchRejects"
    /\ UNCHANGED <<env, upstreamCalls>>
    /\ UNCHANGED sideVars

\* line 72: the backoff timer fires; line 47
ClientTimer ==
    /\ cpc = "backoff"
    /\ IF ClientContinues(cattempt)
       THEN /\ ClientFetch
            /\ UNCHANGED <<form, loading, status, errors, data, cattempt,
                           lastError, cwaits, active>>
       ELSE Finish(FALSE)
    /\ UNCHANGED coutcomes
    /\ last' = "ClientTimer"
    /\ UNCHANGED <<env, relayVars, upstreamCalls>>
    /\ UNCHANGED sideVars

Next ==
    \/ DirectRequest
    \/ RequestArrives
    \/ UpstreamAnswers
    \/ RelayTimer
    \/ DirectResponse
    \/ handleInputChange
    \/ BotInput
    \/ handleSubmit
    \/ FetchResolves
    \/ GatewayResponds
    \/ FetchRejects
    \/ ClientTimer

Spec == Init /\ [][Next]_vars

----------------------------------------------------------------------------
(* Properties of the relay handler                                         *)

Is4xx(o) == o.kind = "response" /\ o.status >= 400 /\ o.status <= 499
Is5xx(o) == o.kind = "response" /\ o.status >= 500 /\ o.status <= 599
IsTransient(o) == Is5xx(o) \/ o.kind = "exception"

Handling == rpc # "idle"
IsPost   == event.httpMethod = "POST"

\* The body is a JSON object carrying a non-empty value under each of the four
\* required keys.
HasAllFields(text) ==
    /\ text.wf
    /\ text.value.t = "object"
    /\ \A k \in RequiredFields :
          /\ k \in DOMAIN text.value.v
          /\ text.value.v[k] \notin {JNull, JStr(<<>>), JNum(0)}

\* The service identifier, the template identifier or both credentials are missing.
EnvIncomplete ==
    \/ env.EMAILJS_SERVICE_ID = ""
    \/ env.EMAILJS_TEMPLATE_ID = ""
    \/ (env.EMAILJS_PUBLIC_KEY = "" /\ env.EMAILJS_PRIVATE_KEY = "")

\* C1: an upstream 4xx answer is terminal: it is the last upstream call of the
\* activation, the handler has returned a failure response, and no backoff wait
\* follows it (a 4xx answer to the first attempt: exactly 1 upstream call).
C1_ClientErrorIsTerminal ==
    \A i \in 1 .. Len(outcomes) :
        Is4xx(outcomes[i]) =>
            /\ rpc = "done"
            /\ calls = i
            /\ response.statusCode >= 400
            /\ Len(waits) = i - 1

\* C2: an activation makes at most 3 upstream calls, and makes call n+1 only if
\* call n ended in a 5xx response or a network-level exception.
C2_RetryOnlyTransient ==
    /\ calls <= 3
    /\ \A n \in 1 .. Len(outcomes) : calls > n => IsTransient(outcomes[n])

\* C3: 5xx, 5xx, then 200: the handler returns the 200 success result after
\* exactly 3 upstream calls, and the wait before attempt 3 is strictly longer
\* than the wait before attempt 2.
C3_TwoFailuresThenSuccess ==
    (/\ Len(outcomes) >= 3
     /\ Is5xx(outcomes[1]) /\ Is5xx(outcomes[2])
     /\ outcomes[3] = Answer(200))
    => /\ rpc = "done"
       /\ response.statusCode = 200 /\ response.body.success
       /\ calls = 3 /\ Len(outcomes) = 3
       /\ Len(waits) = 2
       /\ waits[2] > waits[1]

C3_Witness ==
    /\ rpc = "done" /\ response = Sent
    /\ outcomes = <<Answer(500), Answer(503), Answer(200)>>

\* C4: the wait after failed attempt n (n = 1, 2) is 1000 ms, then 2000 ms, on
\* the 5xx path and on the exception path alike; exactly one wait lies between
\* two consecutive upstream calls; no wait follows the third failed attempt.
C4_BackoffSchedule ==
    /\ Len(waits) <= 2
    /\ \A n \in 1 .. Len(waits) : waits[n] = IF n = 1 THEN 1000 ELSE 2000
    /\ \A n \in 1 .. Len(outcomes) :
          (n <= 2 /\ IsTransient(outcomes[n])) => Len(waits) >= n
    /\ rpc = "fetching" => Len(waits) = calls - 1 /\ Len(outcomes) = calls - 1
    /\ rpc = "waiting"  => Len(waits) = calls /\ Len(outcomes) = calls
    /\ (rpc = "done" /\ calls > 0) => Len(waits) = calls - 1 /\ Len(outcomes) = calls
    /\ Len(outcomes) = 3 => rpc = "done" /\ Len(waits) = 2

C4_Witness ==
    /\ rpc = "done"
    /\ outcomes = <<Answer(503), Exception, Exception>>
    /\ waits = <<1000, 2000>>

\* C5: if the service identifier, the template identifier or both credentials
\* are missing, an otherwise valid POST request is answered 500 with the generic
\* configuration-error message, and no upstream call is made.
C5_MissingConfig ==
    (Handling /\ IsPost /\ HasAllFields(event.body) /\ EnvIncomplete)
    => /\ rpc = "done"
       /\ response.statusCode = 500
       /\ response.body = [error |-> "Server configuration error."]
       /\ calls = 0 /\ outcomes = <<>>

C5_Witness ==
    /\ Handling /\ IsPost /\ HasAllFields(event.body)
    /\ env.EMAILJS_SERVICE_ID # "" /\ env.EMAILJS_TEMPLATE_ID # ""
    /\ env.EMAILJS_PUBLIC_KEY = "" /\ env.EMAILJS_PRIVATE_KEY = ""
    /\ response.statusCode = 500

\* C6: a request whose method is not POST is answered 405 without the body
\* being parsed, the configuration being read or an upstream call being made.
C6_NonPost ==
    (Handling /\ ~IsPost)
    => /\ rpc = "done"
       /\ response.statusCode = 405
       /\ ~parsed /\ ~envRead
       /\ calls = 0 /\ outcomes = <<>>

C6_Witness ==
    /\ Handling /\ event.httpMethod = "GET" /\ HasAllFields(event.body)
    /\ ~EnvIncomplete
    /\ response.statusCode = 405

\* C7: a POST request whose body is not parseable JSON is answered 400, and no
\* upstream call is made.
C7_MalformedJson ==
    (Handling /\ IsPost /\ ~event.body.wf)
    => /\ rpc = "done"
       /\ response.statusCode = 400
       /\ calls = 0 /\ outcomes = <<>>

C7_Witness ==
    /\ Handling /\ IsPost /\ event.body = RawText("{bad") /\ ~EnvIncomplete
    /\ response.statusCode = 400

\* C8: a POST request whose body parses as JSON but does not carry all four
\* required fields (an empty object, a JSON null, an empty-string field) is
\* answered with a client error (4xx), and no upstream call is made.
C8_MissingFieldsRejected ==
    (Handling /\ IsPost /\ event.body.wf /\ ~HasAllFields(event.body))
    => /\ rpc = "done"
       /\ response.statusCode >= 400 /\ response.statusCode <= 499
       /\ calls = 0

----------------------------------------------------------------------------
(* Properties of the submission path                                       *)

NonBlank(str) == \E i \in 1 .. Len(str) : str[i] # " "

\* local@domain.tld: one "@", no white space, a non-empty local part, and a dot
\* inside what follows the "@"
LooksLikeEmail(str) ==
    LET ats == {i \in 1 .. Len(str) : str[i] = "@"} IN
    /\ Cardinality(ats) = 1
    /\ \A i \in 1 .. Len(str) : str[i] # " "
    /\ \A i \in ats :
          /\ i > 1
          /\ \E j \in 1 .. Len(str) : j > i + 1 /\ j < Len(str) /\ str[j] = "."

\* The validity of a Submission: all four required fields non-empty after
\* trimming, a well-formed sender email, an empty honeypot.  f maps field names
\* to strings.
SubmissionOk(f) ==
    /\ \A k \in RequiredFields : k \in DOMAIN f /\ NonBlank(f[k])
    /\ LooksLikeEmail(f["reply_to"])
    /\ "bot_field" \in DOMAIN f => f["bot_field"] = <<>>

\* The same, of the body of a request to the relay.
SubmissionValid(text) ==
    /\ text.wf
    /\ text.value.t = "object"
    /\ \A k \in DOMAIN text.value.v : text.value.v[k].t = "string"
    /\ SubmissionOk([k \in DOMAIN text.value.v |-> text.value.v[k].v])

ReachesApi == calls >= 1

\* C9 as stated: a submission reaches the external email API if and only if it
\* is valid (four fields non-empty after trimming, well-formed email, empty
\* honeypot), whether it comes from the client form or is posted directly to the
\* relay endpoint (of a configured relay, by POST).
C9_RelayedIffValid ==
    (Handling /\ IsPost /\ ~EnvIncomplete)
    => (ReachesApi <=> SubmissionValid(event.body))

\* what holds at each hop, in every state
C9_State ==
    /\ net = "request" => SubmissionOk(data)
    /\ (Handling /\ origin = "client") => IsPost /\ SubmissionValid(event.body)
    /\ Handling => (ReachesApi <=> (IsPost /\ HasAllFields(event.body) /\ ~EnvIncomplete))

\* what a submit event does
C9_SubmitStep ==
    last' = "handleSubmit" => ((net' = "request" /\ requests' = 1) <=> SubmissionOk(form))

\* C9, amended: the client sends a submission to the relay if and only if it is
\* valid, so that only valid submissions of the form reach the relay; the relay
\* forwards a request to the external email API if and only if it is a POST whose
\* JSON body carries a non-empty value under each of the four required keys and
\* the configuration is complete (no trimming, no format check, no honeypot
\* check at the relay).
C9_RelayedIffValidAtEachHop == []C9_State /\ [][C9_SubmitStep]_vars

\* a direct request with a filled honeypot and a malformed email reaches the API
C9_Witness ==
    /\ origin = "direct" /\ rpc = "fetching" /\ ReachesApi
    /\ "bot_field" \in DOMAIN event.body.value.v
    /\ event.body.value.v["reply_to"] = JStr(Name_A)

\* what a submit event with a filled honeypot does
C10_HoneypotStep ==
    (last' = "handleSubmit" /\ form.bot_field # <<>>)
    => /\ status'.type = "success" /\ status'.message # ""
       /\ form' = [k \in AllKeys |-> <<>>]
       /\ requests' = 0 /\ net' = "none" /\ upstreamCalls' = 0
       /\ cpc' = "idle" /\ ~loading'
       /\ rpc' = rpc /\ calls' = calls
       /\ errors' = errors

\* C10: a submit with a non-empty honeypot field ends at once in a success
\* status and a reset form, with no network call and without validation errors
\* being set, whatever the other four fields hold.
C10_HoneypotShortCircuit == [][C10_HoneypotStep]_vars

\* a honeypot submission made while fields were flagged invalid
C10_Witness ==
    /\ last = "handleSubmit"
    /\ status = HoneypotStatus /\ form = EmptyForm
    /\ "reply_to" \in DOMAIN errors /\ "from_name" \in DOMAIN errors
    /\ requests = 0 /\ net = "none"

\* Every request of the client ends, by a response or a rejection, and every
\* backoff timer fires: the steps that a pending await of the submission (and
\* of the relay serving it) is waiting for.
AwaitSettles ==
    \/ RequestArrives
    \/ UpstreamAnswers
    \/ RelayTimer
    \/ FetchResolves
    \/ GatewayResponds
    \/ FetchRejects
    \/ ClientTimer

SpecLive == Init /\ [][Next]_vars /\ WF_vars(AwaitSettles)

\* ---------------------------------------------------------------------------
\* validateForm on its own, over every short email string
\* ---------------------------------------------------------------------------

\* the longest email string tried
MaxEmailLen == 5

\* a letter, white space, and the two characters the pattern names
EmailChars == {"a", " ", "@", "."}

EmailStrings == UNION {[1 .. n -> EmailChars] : n \in 0 .. MaxEmailLen}

\* the values of the form that validateForm is applied to
ValidateForms ==
    [from_name : {<<>>, Blank, Name_A}, reply_to : EmailStrings,
     subject : {<<>>, Blank, Name_A}, message : {<<>>, Blank, Name_A},
     bot_field : {<<>>}]

InitValidate ==
    /\ env = [EMAILJS_SERVICE_ID |-> "service", EMAILJS_TEMPLATE_ID |-> "template",
              EMAILJS_PUBLIC_KEY |-> "public", EMAILJS_PRIVATE_KEY |-> "private"]
    /\ rpc = "idle" /\ origin = "none" /\ event = NoEvent
    /\ parsed = FALSE /\ envRead = FALSE /\ payload = NoPayload
    /\ attempt = 0 /\ calls = 0 /\ outcomes = <<>> /\ waits = <<>>
    /\ response = NoResponse
    /\ form \in ValidateForms
    /\ loading = FALSE /\ status = NoStatus /\ errors = NoErrors
    /\ cpc = "idle" /\ data = NoData /\ cattempt = 0 /\ lastError = ""
    /\ requests = 0 /\ cwaits = <<>> /\ coutcomes = <<>> /\ active = 0
    /\ upstreamCalls = 0 /\ net = "none"
    /\ last = "init"
    /\ SideInit

\* lines 92-93: const validationErrors = validateForm(data), kept in errors
Validate ==
    /\ last = "init"
    /\ errors' = validateForm(form)
    /\ last' = "validateForm"
    /\ UNCHANGED <<env, relayVars, linkVars, form, loading, status, cpc, data,
                   cattempt, lastError, requests, cwaits, coutcomes, active>>
    /\ UNCHANGED sideVars

NextValidate == Validate

SpecValidate == InitValidate /\ [][NextValidate]_vars

\* ---------------------------------------------------------------------------
\* Two invocations of the handler at once, each in its retry loop
\* ---------------------------------------------------------------------------

mainVars == <<env, relayVars, clientVars, linkVars, last, carouselVars>>

\* variant: `attempt` is one module-level variable
Counter_shared(i) == 1

\* line 69: `let attempt = 0` is declared inside handler: invocation i counts
\* in a variable of its own
Counter(i) == i

PairOutcomes == {Answer(200), Answer(400), Answer(503), Exception}

\* both invocations got a POST with the four fields, under a complete
\* configuration
InitPair == Init /\ ~ConfigMissing(env)

\* lines 71-72 and 117-120 for invocation i, its counter holding n
PairLoopTop(i, n) ==
    IF LoopContinues(n)
    THEN /\ counters' = [counters EXCEPT ![Counter(i)] = n + 1]
         /\ inv' = [inv EXCEPT ![i].pc = "fetching", ![i].calls = @ + 1]
    ELSE /\ inv' = [inv EXCEPT ![i].pc = "done", ![i].response = Unavailable]
         /\ UNCHANGED counters

\* lines 67-74: invocation i enters its loop and makes its first upstream call
Invoke ==
    /\ \E i \in Invocations :
          /\ inv[i].pc = "idle"
          /\ PairLoopTop(i, 0)
    /\ UNCHANGED mainVars

\* lines 80-114: the upstream call of invocation i ends
PairAnswers ==
    /\ \E i \in Invocations : \E o \in PairOutcomes :
          LET a == AfterAttempt(o, counters[Counter(i)])
              outs == Append(inv[i].outcomes, o) IN
          /\ inv[i].pc = "fetching"
          /\ CASE a.next = "return" ->
                    /\ inv' = [inv EXCEPT ![i].pc = "done", ![i].outcomes = outs,
                                          ![i].response = a.response]
                    /\ UNCHANGED counters
               [] a.next = "wait" ->
                    /\ inv' = [inv EXCEPT ![i].pc = "waiting", ![i].outcomes = outs,
                                          ![i].waits = Append(@, a.delay)]
                    /\ UNCHANGED counters
               [] OTHER ->
                    IF LoopContinues(counters[Counter(i)])
                    THEN /\ counters' = [counters EXCEPT ![Counter(i)] = @ + 1]
                         /\ inv' = [inv EXCEPT ![i].pc = "fetching",
                                               ![i].outcomes = outs,
                                               ![i].calls = @ + 1]
                    ELSE /\ inv' = [inv EXCEPT ![i].pc = "done", ![i].outcomes = outs,
                                               ![i].response = Unavailable]
                         /\ UNCHANGED counters
    /\ UNCHANGED mainVars

\* lines 92 and 110: the backoff timer of invocation i fires
PairTimer ==
    /\ \E i \in Invocations :
          /\ inv[i].pc = "waiting"
          /\ PairLoopTop(i, counters[Counter(i)])
    /\ UNCHANGED mainVars

NextPair ==
    \/ Invoke
    \/ PairAnswers
    \/ PairTimer

SpecPair == InitPair /\ [][NextPair]_vars

\* ---------------------------------------------------------------------------
\* src/components/Testimonials/Testimonials.jsx: the rotation timers
\* ---------------------------------------------------------------------------

nonCarouselVars == <<env, relayVars, clientVars, linkVars, pairVars>>

\* lines 79-82: clearAllIntervals
NoIntervals == [c \in Cards |-> FALSE]

\* lines 104-114, startAllIntervals(true): one setTimeout per card, whose id is
\* not kept
Staggered(t) == [c \in Cards |-> t[c] + 1]

\* the effect may schedule another round of start timeouts
CanStart(p) == reduced \/ p \/ \A c \in Cards : startTimeouts[c] < MaxPending

\* lines 117-136: the component has rendered with paused = p, the resume timer
\* being pending or not (rt).  `testimonials` is a new array at every render,
\* so startAllIntervals is a new function and the effect runs after every
\* render: first the cleanup the previous run returned, then the effect.
RunEffect(p, rt) ==
    /\ CanStart(p)
    /\ intervalsRef' = NoIntervals
    /\ resumeTimeout' = IF cleanup THEN FALSE ELSE rt
    /\ IF reduced \/ p
       THEN cleanup' = FALSE /\ UNCHANGED startTimeouts
       ELSE cleanup' = TRUE /\ startTimeouts' = Staggered(startTimeouts)

\* the component has mounted and its effect has run once
InitCarousel ==
    /\ MainInit /\ ~ConfigMissing(env) /\ PairInit
    /\ tmounted = TRUE /\ reduced \in BOOLEAN /\ paused = FALSE
    /\ indexes = [c \in Cards |-> 0]
    /\ intervalsRef = NoIntervals
    /\ resumeTimeout = FALSE
    /\ cleanup = ~reduced
    /\ startTimeouts = [c \in Cards |-> IF reduced THEN 0 ELSE 1]

\* line 107: a start timeout fires; lines 85-101: startIntervalForCard
StartTimeoutFires ==
    /\ \E c \in Cards :
          /\ startTimeouts[c] > 0
          /\ startTimeouts' = [startTimeouts EXCEPT ![c] = @ - 1]
          /\ intervalsRef' = [intervalsRef EXCEPT ![c] = TRUE]
    /\ last' = "StartTimeoutFires"
    /\ UNCHANGED <<tmounted, reduced, paused, indexes, resumeTimeout, cleanup>>
    /\ UNCHANGED nonCarouselVars

\* lines 90-96: the interval of a card ticks.  The state of an unmounted
\* component is not updated.
IntervalTick ==
    /\ \E c \in Cards :
          /\ intervalsRef[c]
          /\ IF tmounted
             THEN /\ indexes' = [indexes EXCEPT ![c] = (@ + 1) % CardLength]
                  /\ RunEffect(paused, resumeTimeout)
             ELSE UNCHANGED <<indexes, intervalsRef, startTimeouts, resumeTimeout,
                              cleanup>>
    /\ last' = "IntervalTick"
    /\ UNCHANGED <<tmounted, reduced, paused>>
    /\ UNCHANGED nonCarouselVars

\* lines 139-147: handlePrev, handleNext
Navigate ==
    /\ tmounted
    /\ \E c \in Cards : \E d \in {1, CardLength - 1} :
          indexes' = [indexes EXCEPT ![c] = (@ + d) % CardLength]
    /\ RunEffect(paused, resumeTimeout)
    /\ last' = "Navigate"
    /\ UNCHANGED <<tmounted, reduced, paused>>
    /\ UNCHANGED nonCarouselVars

\* lines 150-153.  setPaused(true) while paused renders nothing anew.
pauseAll ==
    /\ tmounted
    /\ IF paused
       THEN /\ resumeTimeout' = FALSE
            /\ UNCHANGED <<paused, intervalsRef, startTimeouts, cleanup>>
       ELSE /\ paused' = TRUE
            /\ RunEffect(TRUE, FALSE)
    /\ last' = "pauseAll"
    /\ UNCHANGED <<tmounted, reduced, indexes>>
    /\ UNCHANGED nonCarouselVars

\* lines 154-159, up to the setTimeout
resumeAll ==
    /\ tmounted
    /\ resumeTimeout' = TRUE
    /\ last' = "resumeAll"
    /\ UNCHANGED <<tmounted, reduced, paused, indexes, intervalsRef, startTimeouts,
                   cleanup>>
    /\ UNCHANGED nonCarouselVars

\* lines 156-158: the resume timeout fires
ResumeFires ==
    /\ resumeTimeout
    /\ IF tmounted /\ paused
       THEN /\ paused' = FALSE
            /\ RunEffect(FALSE, FALSE)
       ELSE /\ resumeTimeout' = FALSE
            /\ UNCHANGED <<paused, intervalsRef, startTimeouts, cleanup>>
    /\ last' = "ResumeFires"
    /\ UNCHANGED <<tmounted, reduced, indexes>>
    /\ UNCHANGED nonCarouselVars

\* the component is torn down: the cleanup of lines 130-133 runs, if the last
\* run of the effect returned it
Unmount ==
    /\ tmounted
    /\ tmounted' = FALSE
    /\ IF cleanup
       THEN intervalsRef' = NoIntervals /\ resumeTimeout' = FALSE
       ELSE UNCHANGED <<intervalsRef, resumeTimeout>>
    /\ cleanup' = FALSE
    /\ last' = "Unmount"
    /\ UNCHANGED <<reduced, paused, indexes, startTimeouts>>
    /\ UNCHANGED nonCarouselVars

NextCarousel ==
    \/ StartTimeoutFires
    \/ IntervalTick
    \/ Navigate
    \/ pauseAll
    \/ resumeAll
    \/ ResumeFires
    \/ Unmount

SpecCarousel == InitCarousel /\ [][NextCarousel]_vars

\* ---------------------------------------------------------------------------
\* Claims about the contact form: validation, retries, loading, outcomes
\* ---------------------------------------------------------------------------

\* the required fields of f that are empty or hold white space only
BlankFields(f) == {k \in RequiredFields : ~NonBlank(f[k])}

\* what a submit event does when the honeypot is empty and a required field is
\* blank
C11_BlankStep ==
    (last' = "handleSubmit" /\ form.bot_field = <<>> /\ BlankFields(form) # {})
    => /\ validateForm(form) # NoErrors
       /\ BlankFields(form) \subseteq DOMAIN validateForm(form)
       /\ errors' = validateForm(form)
       /\ requests' = 0 /\ net' = "none" /\ upstreamCalls' = 0
       /\ cpc' = "idle" /\ ~loading'
       /\ rpc' = rpc /\ calls' = calls

\* C11: a submit with an empty honeypot and a required field that is empty or
\* white space only: validateForm returns a non-empty mapping with an entry for
\* each such field, handleSubmit records that mapping as the errors, and no
\* network call is made.
C11_BlankFieldsRejected == [][C11_BlankStep]_vars

\* a submission whose name is white space only and whose subject is empty has
\* just been rejected
C11_Witness ==
    /\ last = "handleSubmit"
    /\ form.bot_field = <<>> /\ form.from_name = Blank /\ form.subject = <<>>
    /\ form.reply_to = Email_AtBC /\ form.message = Name_A
    /\ DOMAIN errors = {"from_name", "subject"}
    /\ status = InvalidStatus /\ requests = 0

\* str has no white space and no "@", and is not empty: [^\s@]+
PlainRun(str) ==
    /\ str # <<>>
    /\ \A i \in 1 .. Len(str) : str[i] # " " /\ str[i] # "@"

\* local@domain.tld read as the pattern is written: a run, "@", a run, ".", a
\* run, with nothing before or after
MatchesLocalAtDomainTld(str) ==
    \E p \in 1 .. Len(str) : \E q \in p + 1 .. Len(str) :
        /\ str[p] = "@" /\ str[q] = "."
        /\ PlainRun(SubSeq(str, 1, p - 1))
        /\ PlainRun(SubSeq(str, p + 1, q - 1))
        /\ PlainRun(SubSeq(str, q + 1, Len(str)))

\* C12: validateForm flags reply_to for every email that does not match
\* local@domain.tld, and returns the empty mapping exactly when the four
\* required fields are non-blank and the email matches.
C12_ValidateForm ==
    last = "validateForm"
    => /\ ~MatchesLocalAtDomainTld(form.reply_to) => "reply_to" \in DOMAIN errors
       /\ errors = NoErrors
            <=> /\ \A k \in RequiredFields : NonBlank(form[k])
                /\ MatchesLocalAtDomainTld(form.reply_to)

\* an email with nothing between the "@" and the dot has been flagged, and the
\* other fields have not
C12_Witness ==
    /\ last = "validateForm"
    /\ form.reply_to = <<"a", "@", ".", "a">>
    /\ DOMAIN errors = {"reply_to"} /\ errors.reply_to = "Invalid email format."

\* how the latest request of the submission ended
LatestOutcome == coutcomes[Len(coutcomes)]

\* a response has just been handled by sendEmailWithRetry
ResponseHandled ==
    last \in {"FetchResolves", "GatewayResponds"} /\ coutcomes # <<>>

ClientError(r) == r.statusCode >= 400 /\ r.statusCode <= 499

\* C13: a response with a 4xx status ends the submission where it stands: the
\* error status is shown, no request and no wait follows that response, and
\* when it answers the first request, one request was sent and no wait made.
C13_ClientErrorStops ==
    (ResponseHandled /\ ClientError(LatestOutcome))
    => /\ cpc = "idle" /\ ~loading /\ net = "none"
       /\ status = FailureStatus /\ status.type = "error"
       /\ requests = Len(coutcomes)
       /\ Len(cwaits) = requests - 1
       /\ Len(coutcomes) = 1 => requests = 1 /\ cwaits = <<>>

\* the first request was answered with 404 and the submission has failed
C13_Witness ==
    /\ ResponseHandled /\ LatestOutcome.statusCode = 404
    /\ requests = 1 /\ cwaits = <<>> /\ status = FailureStatus

\* the request ended in a 5xx response or without any response
ClientTransient(o) ==
    o = NetworkFailure \/ (o.statusCode >= 500 /\ o.statusCode <= 599)

\* C14: one submission sends at most 3 requests; request n+1 is sent only after
\* request n ended in a 5xx response or a network failure and a wait of
\* 1000 * 2^(n-1) ms was made; no wait follows the third request.
C14_ClientRetrySchedule ==
    /\ requests <= 3 /\ Len(coutcomes) <= requests
    /\ \A n \in 1 .. 2 :
          requests > n
          => /\ Len(coutcomes) >= n /\ ClientTransient(coutcomes[n])
             /\ Len(cwaits) >= n
    /\ \A n \in 1 .. Len(cwaits) :
          /\ cwaits[n] = 1000 * 2 ^ (n - 1)
          /\ Len(coutcomes) >= n /\ ClientTransient(coutcomes[n])
    /\ Len(cwaits) <= 2 /\ Len(cwaits) <= requests
    /\ cpc = "backoff" => Len(cwaits) = requests /\ requests < 3
    /\ cpc = "fetching" => Len(cwaits) = requests - 1

\* three requests, the first lost, the second answered 502 by the relay, the
\* third failed too: two waits were made, none after the third
C14_Witness ==
    /\ requests = 3 /\ Len(coutcomes) = 3 /\ cpc = "idle"
    /\ coutcomes[1] = NetworkFailure /\ coutcomes[2].statusCode = 502
    /\ ClientTransient(coutcomes[3])
    /\ cwaits = <<1000, 2000>> /\ status = FailureStatus

\* C15: whenever a request of the form is outstanding or a backoff wait is
\* pending, the loading flag is true.
C15_LoadingWhileSending ==
    (cpc = "fetching" \/ cpc = "backoff" \/ (net # "none" /\ origin # "direct"))
    => loading

\* the second backoff wait of a submission is pending
C15_Witness ==
    /\ cpc = "backoff" /\ cwaits = <<1000, 2000>> /\ requests = 2 /\ loading

\* C16: at most one execution of handleSubmit is between its setLoading(true)
\* and its setLoading(false), and the submit control is disabled for as long as
\* one is.
C16_OneSubmissionAtATime ==
    /\ active \in {0, 1}
    /\ active = 1 <=> loading
    /\ active = 1 <=> cpc # "idle"
    /\ active = 1 => ~SubmitEnabled(loading)

\* a second submission, made after the first one failed, is waiting for the
\* relay, which is itself waiting to retry
C16_Witness ==
    /\ active = 1 /\ cpc = "fetching" /\ net = "relay" /\ rpc = "waiting"
    /\ requests = 2 /\ ~SubmitEnabled(loading)

\* the request was answered with an ok status and a true success flag
Accepted(o) ==
    /\ o.statusCode \in 200 .. 299
    /\ "success" \in DOMAIN o.body /\ o.body.success = TRUE

\* what the step that ends a submission does
C17_EndStep ==
    (loading /\ ~loading')
    => /\ coutcomes' # <<>>
       /\ IF Accepted(coutcomes'[Len(coutcomes')])
          THEN /\ status'.type = "success" /\ status'.message # ""
               /\ form' = [k \in AllKeys |-> <<>>]
          ELSE /\ status'.type = "error" /\ status'.message # ""
               /\ form' = form /\ SubmissionOk(form')

\* C17: a submission that ends in success resets the form and shows a success
\* status; one that ends in failure, by a rejection that is not retried or by
\* exhausted retries, leaves every field as it was and shows an error status.
C17_OutcomeHandling == [][C17_EndStep]_vars

\* retries are exhausted and the form still holds what was typed
C17_Witness ==
    /\ last \in {"FetchResolves", "FetchRejects"} /\ ~loading
    /\ Len(coutcomes) = 3 /\ status.type = "error"
    /\ form.from_name = Name_A /\ form.reply_to = Email_AtBC
    /\ form.subject = Name_A /\ form.message = Name_A

\* once the upstream has answered the relay's first call of a client request
\* with 200, the relay is done with a 200 success after that one call
C18_State ==
    (origin = "client" /\ outcomes # <<>>
        /\ outcomes[1].kind = "response" /\ outcomes[1].status = 200)
    => /\ rpc = "done" /\ calls = 1 /\ Len(outcomes) = 1 /\ waits = <<>>
       /\ response.statusCode = 200 /\ response.body.success = TRUE
       /\ requests = 1 => upstreamCalls = 1

\* and when that response reaches the client as the answer to its first request
C18_Step ==
    (last' = "FetchResolves" /\ requests = 1 /\ outcomes # <<>>
        /\ outcomes[1].kind = "response" /\ outcomes[1].status = 200)
    => /\ SubmissionOk(form) /\ ~EnvIncomplete
       /\ status'.type = "success" /\ form' = [k \in AllKeys |-> <<>>]
       /\ requests' = 1 /\ upstreamCalls' = 1 /\ cwaits' = <<>>
       /\ cpc' = "idle" /\ ~loading'

\* C18: a valid submission with an empty honeypot, sent to a configured relay
\* whose upstream answers the first call with 200, ends in success with the
\* form reset, after one request to the relay and one upstream call.
C18_EndToEndSuccess == []C18_State /\ [][C18_Step]_vars

\* the submission has succeeded at the first request
C18_Witness ==
    /\ last = "FetchResolves" /\ status = SuccessStatus /\ form = EmptyForm
    /\ requests = 1 /\ upstreamCalls = 1 /\ cwaits = <<>>
    /\ Len(coutcomes) = 1 /\ Accepted(coutcomes[1])

\* ---------------------------------------------------------------------------
\* Claims about the relay's result
\* ---------------------------------------------------------------------------

Upstream2xx(o) == o.kind = "response" /\ o.status \in 200 .. 299

\* C19: the handler returns the 200 success result exactly when an upstream
\* attempt of the invocation was answered with a 2xx status, and that attempt
\* is the last upstream call of the invocation.
C19_SuccessIffLastOk ==
    /\ \A i \in 1 .. Len(outcomes) :
          Upstream2xx(outcomes[i])
          => /\ i = Len(outcomes) /\ i = calls
             /\ rpc = "done"
             /\ response.statusCode = 200 /\ response.body.success = TRUE
    /\ (rpc = "done" /\ response.statusCode = 200)
          => /\ outcomes # <<>> /\ Upstream2xx(outcomes[Len(outcomes)])
             /\ Len(outcomes) = calls

\* the second upstream call was answered 204 and the handler returned success
C19_Witness ==
    /\ rpc = "done" /\ response.statusCode = 200 /\ response.body.success = TRUE
    /\ outcomes = <<Answer(503), Answer(204)>> /\ calls = 2

\* C20: when all three upstream attempts end in a 5xx answer or an exception,
\* in any mix, the handler returns 502 with the generic message.
C20_ExhaustedIs502 ==
    (Len(outcomes) = 3 /\ \A i \in 1 .. 3 : IsTransient(outcomes[i]))
    => /\ rpc = "done" /\ calls = 3
       /\ response.statusCode = 502
       /\ "success" \notin DOMAIN response.body
       /\ response.body.error =
            "Email service temporarily unavailable. Please try again later."

\* an exception, a 503 and an exception again: 502
C20_Witness ==
    /\ rpc = "done" /\ response.statusCode = 502
    /\ outcomes = <<Exception, Answer(503), Exception>>

\* the class of an upstream outcome: what is left of it once the body text, the
\* exact error status and the exception message are put aside
OutcomeClass(o) ==
    IF o.kind = "exception" THEN "exception"
    ELSE IF o.status \in 200 .. 299 THEN "ok"
    ELSE IF o.status \in 400 .. 499 THEN "rejected"
    ELSE "server error"

\* C21: the response of an invocation that called the upstream is a function of
\* the classes of its upstream outcomes alone, so two invocations whose
\* outcomes differ only in body text, in the error status within a class or in
\* the exception message return the same status code and body.
C21_ResponseHidesUpstreamDetail ==
    (rpc = "done" /\ outcomes # <<>>)
    => response =
         IF OutcomeClass(outcomes[Len(outcomes)]) = "ok"
         THEN [statusCode |-> 200,
               body |-> [success |-> TRUE, message |-> "Message sent successfully."]]
         ELSE [statusCode |-> 502,
               body |-> [error |-> "Email service temporarily unavailable. Please try again later."]]

\* an invocation whose outcomes carry the unusual texts has returned the usual
\* success
C21_Witness ==
    /\ rpc = "done"
    /\ outcomes = <<AnswerText(500, "stack trace"), ExceptionOf("ETIMEDOUT"),
                    AnswerText(200, "queued")>>
    /\ response = Sent

\* C22: what an invocation ends in is a response, never an exception, with a
\* status code among 200, 400, 405, 500 and 502; the exception that handling a
\* POST request raises outside the retry loop (the body is the JSON null, which
\* cannot be destructured) becomes the 500 with the generic message.
C22_AlwaysAResponse ==
    /\ rpc = "done"
          => /\ response.statusCode \in {200, 400, 405, 500, 502}
             /\ DOMAIN response.body \in {{"error"}, {"success", "message"}}
    /\ (Handling /\ IsPost /\ event.body = JsonText(JNull))
          => /\ rpc = "done"
             /\ response =
                  [statusCode |-> 500,
                   body |-> [error |-> "Internal server error. Please try again later."]]
             /\ calls = 0 /\ outcomes = <<>>

\* a POST whose body is the text null, to a configured relay, was answered 500
C22_Witness ==
    /\ rpc = "done" /\ IsPost /\ event.body = JsonText(JNull) /\ ~EnvIncomplete
    /\ response = InternalError

RECURSIVE RunAlone(_, _)
RunAlone(outs, n) ==
    IF n >= 3
    THEN [done |-> TRUE, response |-> Unavailable, calls |-> n, rest |-> outs]
    ELSE IF outs = <<>>
    THEN [done |-> FALSE, response |-> NoResponse, calls |-> n, rest |-> outs]
    ELSE IF Upstream2xx(Head(outs))
    THEN [done |-> TRUE, response |-> Sent, calls |-> n + 1, rest |-> Tail(outs)]
    ELSE RunAlone(Tail(outs), n + 1)

\* C24: of two invocations running at once, in any interleaving, each counts
\* its own attempts, makes at most 3 upstream calls, and returns what it would
\* return running alone with the same upstream outcomes.
C24_InvocationsIndependent ==
    \A i \in Invocations :
        LET alone == RunAlone(inv[i].outcomes, 0) IN
        /\ inv[i].calls <= 3 /\ Len(inv[i].outcomes) <= 3
        /\ counters[i] = inv[i].calls
        /\ alone.rest = <<>>
        /\ inv[i].pc = "done" <=> alone.done
        /\ inv[i].pc = "done" =>
              /\ inv[i].response = alone.response
              /\ inv[i].calls = alone.calls
        /\ inv[i].pc \in {"fetching", "waiting"} => inv[i].response = NoResponse

\* the first invocation has failed three times while the second, started
\* after the first one's first failure, succeeded at its second call
C24_Witness ==
    /\ inv[1].pc = "done" /\ inv[1].response = Unavailable
    /\ inv[1].outcomes = <<Answer(503), Exception, Answer(503)>>
    /\ inv[2].pc = "done" /\ inv[2].response = Sent
    /\ inv[2].outcomes = <<Exception, Answer(200)>>
    /\ counters = <<3, 2>>

\* the credentials found in the upstream payload
PayloadCredentials ==
    {payload[k] : k \in DOMAIN payload \cap {"user_id", "accessToken"}}

\* C25: the upstream payload carries the private credential whenever one is
\* configured, with or without a public one, and the public credential alone
\* exactly when no private one is configured; the configuration check passes
\* when either credential is present.
C25_CredentialChoice ==
    /\ payload # NoPayload
          => /\ env.EMAILJS_PRIVATE_KEY # ""
                   => env.EMAILJS_PRIVATE_KEY \in PayloadCredentials
             /\ PayloadCredentials = {env.EMAILJS_PUBLIC_KEY}
                   <=> env.EMAILJS_PRIVATE_KEY = ""
             /\ "" \notin PayloadCredentials
    /\ (Handling /\ IsPost /\ HasAllFields(event.body)
          /\ env.EMAILJS_SERVICE_ID # "" /\ env.EMAILJS_TEMPLATE_ID # ""
          /\ (env.EMAILJS_PUBLIC_KEY # "" \/ env.EMAILJS_PRIVATE_KEY # ""))
          => /\ payload # NoPayload /\ calls >= 1
             /\ response # ConfigError

\* both credentials are configured and the payload sent upstream carries the
\* private one
C25_Witness ==
    /\ rpc = "fetching" /\ calls = 1
    /\ env.EMAILJS_PUBLIC_KEY = "public" /\ env.EMAILJS_PRIVATE_KEY = "private"
    /\ payload.user_id = "private"

\* the submission is over: Success or Failure
Terminal == ~loading /\ cpc = "idle" /\ status \in {SuccessStatus, FailureStatus}

\* from Sending, the client goes on sending, to Retry, or to a terminal state
C26_SendingStep ==
    cpc = "fetching"
    => \/ cpc' = "fetching" /\ requests' = requests /\ loading'
       \/ cpc' = "backoff" /\ loading' /\ requests' = requests
       \/ Terminal'

\* C26: every submission that passes validation reaches Success or Failure,
\* with loading back to false, provided every request resolves or rejects and
\* every backoff timer fires; from Sending the only successors are Retry,
\* Success and Failure.
C26_SubmissionTerminates ==
    /\ loading ~> Terminal
    /\ [][C26_SendingStep]_vars

\* a submission is retrying, two requests having failed
C26_Witness ==
    /\ loading /\ cpc = "fetching" /\ requests = 3 /\ Len(coutcomes) = 2

\* C27: while the upstream rejects every call of a client submission with a 4xx
\* status, the submission has caused one upstream call, and the relay has
\* answered with a status the client does not retry.
C27_RejectionNotRetried ==
    (origin = "client" /\ outcomes # <<>>
        /\ \A i \in 1 .. Len(outcomes) : Is4xx(outcomes[i]))
    => /\ upstreamCalls = 1 /\ calls = 1
       /\ rpc = "done" /\ response.statusCode < 500

\* the request fails the method check, the parse or the field check
FailsEarly == ~IsPost \/ ~event.body.wf \/ ~HasAllFields(event.body)

\* C28: the checks come in the order method, parse, fields, configuration,
\* upstream call: a POST with missing fields under a missing configuration is
\* answered 400, and a request that fails the method check, the parse or the
\* field check is answered without the configuration being read.
C28_CheckOrder ==
    /\ (Handling /\ IsPost /\ event.body.wf /\ ~HasAllFields(event.body)
          /\ EnvIncomplete)
          => rpc = "done" /\ response.statusCode = 400
    /\ (Handling /\ FailsEarly)
          => /\ rpc = "done" /\ ~envRead /\ calls = 0 /\ payload = NoPayload
             /\ response.statusCode = IF IsPost THEN 400 ELSE 405

\* C29: a response with a status below 500 that is not a confirmed success (an
\* ok status without a true success flag, a body that is not JSON) ends the
\* submission in failure with no further request and no wait; another request
\* follows only a request that ended without a response or with a status of
\* 500 or above.
C29_UnconfirmedIsFinal ==
    /\ (ResponseHandled /\ LatestOutcome.statusCode < 500
          /\ ~Accepted(LatestOutcome))
          => /\ cpc = "idle" /\ ~loading /\ status = FailureStatus
             /\ requests = Len(coutcomes) /\ Len(cwaits) = requests - 1
             /\ Len(coutcomes) = 1 => requests = 1 /\ cwaits = <<>>
    /\ \A n \in 1 .. Len(coutcomes) :
          n < requests
          => coutcomes[n] = NetworkFailure \/ coutcomes[n].statusCode >= 500

\* the first request was answered 200 with a page that is not JSON, and the
\* submission has failed
C29_Witness ==
    /\ ResponseHandled /\ coutcomes = <<Resp(200, [raw |-> "<html></html>"])>>
    /\ requests = 1 /\ cwaits = <<>> /\ status = FailureStatus /\ ~loading

\* ---------------------------------------------------------------------------
\* Claim about the Testimonials carousel
\* ---------------------------------------------------------------------------

\* C30: once the effect has been cleaned up by a pause or a teardown, and until
\* it starts the intervals again, no rotation interval is set and no interval
\* has advanced a card.
C30_TimersDisposed ==
    (paused \/ ~tmounted)
    => /\ \A c \in Cards : ~intervalsRef[c]
       /\ last # "IntervalTick"

====
